---------------------------- MODULE Spec2Model ----------------------------
(***************************************************************************)
(* A model of fetch_sec_bullish_secapi.py: one run of main() over its five *)
(* query tasks, each paginated by run_query_to_files() through             *)
(* _post_once(), with the provider's answers and the outcome of every file *)
(* write chosen by the environment.                                        *)
(* RunSpec starts before the module's configuration checks, HistorySpec    *)
(* runs the script several times in a row, PageSpec and FeedSpec look at   *)
(* the last tasks of a run with richer answers of the provider.            *)
(*                                                                         *)
(* Python values are encoded with one TLA+ type per field:                 *)
(*   - an optional value (None or v) is the sequence << >> or << v >>;     *)
(*   - a missing string field of a filing is the string "None";            *)
(*   - a JSON body is a record with a kind ("dict", "list", "str", "num",  *)
(*     "empty") and, for a dict, the keys the code reads.                  *)
(* The rows of a list are always JSON objects (dicts) in this model, and a *)
(* dict holds at most one list of rows.                                    *)
(***************************************************************************)
EXTENDS Integers, Sequences, FiniteSets, TLC

VARIABLES
    SEC_API_URL,    \* module global, lines 50 and 71
    SEC_API_KEY,    \* module global, line 51
    AUTH_SCHEME,    \* module global, line 52
    PAGE_LIMIT,     \* module global, line 56
    MAX_PER_QUERY,  \* module global, line 55
    pc,             \* position of the single thread of control
    ti,             \* index into main's tasks list of the task being run
    status,         \* per task: "pending", "running", "ok", "failed" (the fetch
                    \* raised) or "write_failed" (save_json_csv raised)
    started,        \* the tasks main has called run_query_to_files for, in order
    exc,            \* the exception main's except clause caught last, if any
    collected,      \* run_query_to_files local
    page,           \* run_query_to_files local
    frm,            \* run_query_to_files local
    next_token,     \* run_query_to_files local (optional)
    payload,        \* the request in flight or last sent (optional)
    resp,           \* the last body _post_once returned (optional)
    nposts,         \* number of POSTs issued for the current task
    total_items,    \* main local
    rss_items,      \* main local
    files,          \* data/<name>.json and data/<name>.csv as written by this run
    feed,           \* public/sec-bullish.xml as written by this run (optional)
    tried,          \* the (url, headers) of the POSTs issued for the current task
    log,            \* the line printed last, as the sequence of its parts
    run,            \* number of the run of the script, from 1
    emitted         \* ids of the items the feeds of earlier runs held

vars == << SEC_API_URL, SEC_API_KEY, AUTH_SCHEME, PAGE_LIMIT, MAX_PER_QUERY, pc, ti,
           status, started, exc, collected, page, frm, next_token, payload, resp,
           nposts, total_items, rss_items, files, feed, tried, log, run, emitted >>

-----------------------------------------------------------------------------
(* Bounds of the model *)

MaxPageLimit == 2   \* PAGE_LIMIT ranges over -1 .. MaxPageLimit
MaxPerQuery == 2    \* MAX_PER_QUERY ranges over 0 .. MaxPerQuery
MaxRows == 2        \* a page carries at most MaxRows rows
MaxStored == 3      \* at most MaxStored rows are held (collected or counted) in a run
ProviderTotal == 40 \* the total a response may report
MaxRuns == 2        \* the script is run at most MaxRuns times in a row
MaxBigPage == 31    \* the longest page of the runs that fill the feed
MaxBigPerQuery == 40 \* the largest MAX_PER_QUERY of those runs

(* Program constants *)

NumTasks == 5
RssPerCategory == 30

-----------------------------------------------------------------------------
(* Values *)

None == << >>
Some(v) == << v >>
Opt(S) == { None } \cup { Some(v) : v \in S }
Truthy(o) == o # None /\ o[1] # ""      \* truth value of an optional string
TruthyInt(o) == o # None /\ o[1] # 0    \* truth value of an optional integer

Min(a, b) == IF a < b THEN a ELSE b
Max(a, b) == IF a > b THEN a ELSE b

Tasks == 1 .. NumTasks

TaskName(i) ==
    CASE i = 1 -> "8K_bullish"
      [] i = 2 -> "8K_material_agreements"
      [] i = 3 -> "Form4_buys"
      [] i = 4 -> "10Q_bullish"
      [] OTHER -> "13D_13G"

(* Filing objects as the provider sends them. FilingA and FilingC share    *)
(* the key (accessionNo, filedAt, link) and differ in another field.       *)
Filing(acc, ticker) ==
    [ accessionNo |-> acc, filedAt |-> "d1", link |-> "l1", ticker |-> ticker,
      whole |-> FALSE ]

FilingA == Filing("a1", "T1")
FilingB == Filing("a2", "T1")
FilingC == Filing("a1", "T2")

Filings == { FilingA, FilingB, FilingC }

RowSeqs == UNION { [ 1 .. n -> Filings ] : n \in 0 .. MaxRows }

ListKeys == << "filings", "data", "results", "items" >>
TopListKeys == { ListKeys[i] : i \in 1 .. Len(ListKeys) }

(* JSON bodies of a 2xx answer *)
Body(kind, listKey, rows, tok, nxt, total, hits, hitsTotal, raw) ==
    [ kind |-> kind, listKey |-> listKey, rows |-> rows, nextPageToken |-> tok,
      next |-> nxt, total |-> total, hits |-> hits, hitsTotal |-> hitsTotal,
      raw |-> raw ]

Plain(kind, rows) ==
    Body(kind, "none", rows, None, None, None, "absent", None, FALSE)

DictBodies ==
    { Body("dict", k, rows, tok, nxt, total, hits, ht, FALSE) :
        k \in TopListKeys \cup { "hits.hits", "none" }, rows \in RowSeqs,
        tok \in Opt({ "t1" }), nxt \in Opt({ "t2" }),
        total \in Opt({ ProviderTotal }), hits \in { "absent", "dict" },
        ht \in Opt({ ProviderTotal }) }

WellFormed(b) ==
    /\ b.hits = "absent" => b.hitsTotal = None
    /\ b.listKey = "hits.hits" => b.hits = "dict"
    /\ b.listKey = "none" => b.rows = << >>
    \* {} is falsy: a dict with no key at all is the body of kind "empty"
    /\ b.listKey = "none" =>
         Truthy(b.nextPageToken) \/ Truthy(b.next) \/ b.total # None
           \/ b.hits = "dict"

JsonBodies ==
    { b \in DictBodies : WellFormed(b) }
      \cup { Plain("dict", << >>) }   \* an object with none of the keys read
      \cup { Plain("list", rows) : rows \in RowSeqs \ { << >> } }
      \cup { Plain("str", << >>), Plain("num", << >>), Plain("empty", << >>) }

(* What _post_once returns for a 2xx answer whose body is not JSON *)
RawBody == Body("dict", "none", << >>, None, None, None, "absent", None, TRUE)

(* What arrives with a 2xx status: a JSON body, or text that is not JSON *)
JsonAnswer(b) == [ json |-> TRUE, body |-> b ]
TextAnswer == [ json |-> FALSE, body |-> Plain("str", << >>) ]

(* Every answer the model of one task draws from *)
AllAnswers == { JsonAnswer(b) : b \in JsonBodies } \cup { TextAnswer }

(* The answers the model of a whole run draws from: a page of filings with *)
(* or without a token, an empty page, and a body that makes the page's     *)
(* handling raise.                                                         *)
BasicBodies ==
    { b \in JsonBodies :
        /\ b.listKey = "filings"
        /\ b.rows \in { << >>, << FilingA >> }
        /\ b.next = None /\ b.total = None
        /\ b.hits = "dict" => b.hitsTotal # None /\ b.nextPageToken = None }
      \cup { Plain("num", << >>), Plain("list", << FilingA >>) }

BasicAnswers == { JsonAnswer(b) : b \in BasicBodies }

(* The environment: what os.getenv returns for SEC_API_URL, SEC_API_KEY and *)
(* AUTH_SCHEME, None when the variable is not set                          *)
EnvUrls == Opt({ "", " ", "u1", "u1/", " u1" })
EnvKeys == Opt({ "", "k1", "k1 " })
EnvSchemes == Opt({ "", "bearer", "Bearer", "x-api-key", "raw", "basic" })

AuthSchemes == { "bearer", "x-api-key", "raw" }

-----------------------------------------------------------------------------
(* The pure functions of the program *)

(* str.strip() and str.lower() on the strings of the environment *)
Strip(s) ==
    CASE s = " " -> ""
      [] s = " u1" -> "u1"
      [] s = "k1 " -> "k1"
      [] OTHER -> s

Lower(s) == IF s = "Bearer" THEN "bearer" ELSE s

(* lines 43-47; os.getenv gives the default for a variable that is not set *)
getenv_strip(v, default) == Strip(IF v = None THEN default ELSE v[1])

(* line 71 *)
StripSlash(s) == IF s = "u1/" THEN "u1" ELSE s

(* lines 86-92 *)
headers(scheme, key) ==
    CASE scheme = "bearer" ->
           [ name |-> "Authorization", value |-> << "Bearer", key >> ]
      [] scheme = "x-api-key" ->
           [ name |-> "x-api-key", value |-> << key >> ]
      [] OTHER ->
           [ name |-> "Authorization", value |-> << key >> ]

(* line 99: where and with what the POST goes out *)
Target == [ url |-> SEC_API_URL, headers |-> headers(AUTH_SCHEME, SEC_API_KEY) ]

(* line 97 *)
PostLine ==
    << "POST", SEC_API_URL,
       IF AUTH_SCHEME \in { "bearer", "raw" } THEN "Authorization" ELSE "x-api-key" >>

(* The message of the exception: lines 101, 104 and 106; for "http" the    *)
(* HTTPError of raise_for_status (line 108), whose text names the url; the *)
(* text of a RequestException is left as one opaque part.                  *)
ErrorText(e) ==
    CASE e = "network" -> << "Mrezna greska", "RequestException" >>
      [] e = "404" -> << "404 Not Found" >>
      [] e = "auth" -> << "Auth greska (401/403)" >>
      [] e = "http" -> << "HTTPError for url", SEC_API_URL >>
      [] OTHER -> << e >>

(* line 381 *)
FailedLine(name, e) == << name, "failed" >> \o ErrorText(e)

(* dict.get of a filing field, then _safe_get's None -> "" *)
safe_get(v) == IF v = "None" THEN "" ELSE v

(* A dict body taken as one row, the fallback of _extract_rows: the body  *)
(* has none of a filing's fields, so every r.get(...) on it is None.      *)
WholeRow ==
    [ accessionNo |-> "None", filedAt |-> "None", link |-> "None",
      ticker |-> "None", whole |-> TRUE ]

(* _post_once lines 109-113 *)
post_once_returns(a) == IF a.json THEN a.body ELSE RawBody

(* _extract_rows raises TypeError at `key in resp` for a number *)
extract_rows_raises(r) == r.kind = "num"

extract_rows(r) ==
    IF r.kind = "empty" THEN << >>
    ELSE IF r.kind = "list" THEN r.rows
    ELSE IF \E i \in 1 .. Len(ListKeys) : ListKeys[i] = r.listKey THEN r.rows
    ELSE IF r.kind = "dict" THEN << WholeRow >>
    ELSE << >>

Key(r) == << r.accessionNo, r.filedAt, r.link >>

(* lines 316-321: `seen` is built once, from collected before the page *)
Seen(coll) == { Key(coll[i]) : i \in 1 .. Len(coll) }

NotSeen(seen, r) == Key(r) \notin seen

DedupAppend(coll, rows) ==
    coll \o SelectSeq(rows, LAMBDA r : NotSeen(Seen(coll), r))

(* _page_extract_next raises AttributeError at resp.get for a list *)
page_extract_next_raises(r) == r.kind = "list"

ExtractToken(r) ==
    IF Truthy(r.nextPageToken) THEN r.nextPageToken
    ELSE IF Truthy(r.next) THEN r.next
    ELSE None

(* line 289: (total or hits.total) if hits is a dict else None *)
ExtractTotal(r) ==
    IF r.hits = "dict"
    THEN IF TruthyInt(r.total) THEN r.total ELSE r.hitsTotal
    ELSE None

(* The offset heuristic tried before the token *)
page_extract_next_total_first(r, f, sz) ==
    LET token == ExtractToken(r)
        total == ExtractTotal(r)
    IN  IF total # None /\ f + sz < total[1]
        THEN [ token |-> None, next_from |-> f + sz, has_more |-> TRUE ]
        ELSE [ token |-> token, next_from |-> f, has_more |-> FALSE ]

page_extract_next(r, f, sz) ==
    LET token == ExtractToken(r)
        total == ExtractTotal(r)
    IN  IF Truthy(token)
        THEN [ token |-> token, next_from |-> f, has_more |-> FALSE ]
        ELSE [ token |-> None, next_from |-> f + sz,
               has_more |-> total # None /\ f + sz < total[1] ]

payload_base(q, sz, f, tok) ==
    [ query |-> q, from |-> f, size |-> sz,
      nextPageToken |-> IF Truthy(tok) THEN tok ELSE None ]

(* line 306 *)
PageSize(max_items) ==
    Min(100, Max(20, max_items \div Max(PAGE_LIMIT, 1)))

size == PageSize(MAX_PER_QUERY)

(* The loop condition without its page cap *)
LoopGuardNoPageCap == Len(collected) < MAX_PER_QUERY

(* line 308 *)
LoopGuard == page < PAGE_LIMIT /\ Len(collected) < MAX_PER_QUERY

(* A page without rows not ending the loop *)
EmptyPageNever(rows) == FALSE

(* line 312 *)
EmptyPage(rows) == rows = << >>

(* The page counter left as it is *)
NextPageNoStuck(p) == p

(* line 326 *)
NextPageNo(p) == p + 1

(* Every row of the category put in the feed *)
RssHeadAll(rows) == rows

(* line 373: rows[:30] *)
RssHead(rows) == SubSeq(rows, 1, Min(RssPerCategory, Len(rows)))

(* lines 373-379: one feed item per row *)
RssItem(r, name) ==
    [ title |-> << safe_get(r.ticker), name >>, link |-> safe_get(r.link),
      pubDate |-> safe_get(r.filedAt) ]

RssItems(rows, name) ==
    [ i \in 1 .. Len(RssHead(rows)) |-> RssItem(RssHead(rows)[i], name) ]

(* lines 211-224: one CSV line per row *)
CsvRow(r) ==
    << safe_get(r.ticker), safe_get(r.filedAt), safe_get(r.link), r.accessionNo >>

CsvRows(rows) == [ i \in 1 .. Len(rows) |-> CsvRow(rows[i]) ]

-----------------------------------------------------------------------------
(* The state machine *)

NoFiles == [ t \in Tasks |-> [ json |-> None, csv |-> None ] ]

(* line 73 *)
UrlLine == << "SEC_API_URL = ***" >>

(* The module's globals once its lines 50-79 have run without sys.exit, in *)
(* the first run                                                           *)
ConfiguredInit ==
    /\ SEC_API_URL = "u1"
    /\ SEC_API_KEY = "k1"
    /\ AUTH_SCHEME = "bearer"
    /\ tried = { }
    /\ log = UrlLine
    /\ run = 1
    /\ emitted = { }

Init ==
    /\ ConfiguredInit
    /\ PAGE_LIMIT \in -1 .. MaxPageLimit
    /\ MAX_PER_QUERY \in 0 .. MaxPerQuery
    /\ pc = "main"
    /\ ti = 1
    /\ status = [ t \in Tasks |-> "pending" ]
    /\ started = << >>
    /\ exc = None
    /\ collected = << >>
    /\ page = 0
    /\ frm = 0
    /\ next_token = None
    /\ payload = None
    /\ resp = None
    /\ nposts = 0
    /\ total_items = 0
    /\ rss_items = << >>
    /\ files = NoFiles
    /\ feed = None

Config == << PAGE_LIMIT, MAX_PER_QUERY >>
Env == << SEC_API_URL, SEC_API_KEY, AUTH_SCHEME >>
History == << run, emitted >>
Locals == << collected, page, frm, next_token, resp, nposts >>
Outputs == << total_items, rss_items, files, feed >>

(* The locals of run_query_to_files, as line 302-305 sets them and as they *)
(* are once the call is over                                                *)
ResetLocals ==
    /\ collected' = << >>
    /\ page' = 0
    /\ frm' = 0
    /\ next_token' = None
    /\ resp' = None
    /\ nposts' = 0

(* main line 364-366 entering run_query_to_files lines 302-306 *)
StartTask ==
    /\ pc = "main"
    /\ ti <= NumTasks
    /\ status' = [ status EXCEPT ![ti] = "running" ]
    /\ started' = Append(started, ti)
    /\ exc' = None
    /\ payload' = None
    /\ pc' = "loop"
    /\ ResetLocals
    /\ tried' = { }
    /\ UNCHANGED << Config, Env, History, ti, Outputs, log >>

(* lines 308-310: the loop condition holds, the payload is built and POSTed. *)
(* nposts counts the POSTs and stops counting above MaxPageLimit.            *)
SendRequest ==
    /\ pc = "loop"
    /\ LoopGuard
    /\ payload' = Some(payload_base(TaskName(ti), size, frm, next_token))
    /\ nposts' = IF nposts <= MaxPageLimit THEN nposts + 1 ELSE nposts
    /\ resp' = None
    /\ tried' = tried \cup { Target }
    /\ log' = PostLine
    /\ pc' = "await"
    /\ UNCHANGED << Config, Env, History, ti, status, started, exc, collected,
                    page, frm, next_token, Outputs >>

(* line 308: the loop condition fails *)
LoopExit ==
    /\ pc = "loop"
    /\ ~ LoopGuard
    /\ pc' = "save"
    /\ UNCHANGED << Config, Env, History, ti, status, started, exc, Locals,
                    payload, Outputs, tried, log >>

(* The exception not caught: the run ends with it *)
ExceptionEscapes(e, st) ==
    /\ status' = [ status EXCEPT ![ti] = st ]
    /\ exc' = Some(e)
    /\ pc' = "crashed"
    /\ log' = << "Traceback", e >>
    /\ ResetLocals
    /\ UNCHANGED << ti, started, payload >>

(* main lines 380-381: an exception that left run_query_to_files is caught *)
(* and logged, and the for loop goes on with the next task                  *)
ExceptionCaught(e, st) ==
    /\ status' = [ status EXCEPT ![ti] = st ]
    /\ exc' = Some(e)
    /\ ti' = ti + 1
    /\ pc' = "main"
    /\ log' = FailedLine(TaskName(ti), e)
    /\ ResetLocals
    /\ UNCHANGED << started, payload >>

(* What was collected so far written and counted on the way out *)
FetchFailsSavingPartial(e) ==
    /\ ExceptionCaught(e, "failed")
    /\ files' = IF collected = << >> THEN files
                ELSE [ files EXCEPT ![ti].json = Some(collected) ]
    /\ total_items' = total_items + Len(collected)
    /\ UNCHANGED rss_items

(* An exception raised by line 310-325 leaves run_query_to_files before *)
(* its lines 336-342: nothing is saved and nothing is returned           *)
FetchFails(e) ==
    /\ ExceptionCaught(e, "failed")
    /\ UNCHANGED << total_items, rss_items, files >>

PostErrors == { "network", "404", "auth", "http" }

(* The same request sent again after a failure *)
PostFailsRetries ==
    /\ pc = "await"
    /\ \E e \in PostErrors :
         /\ exc' = Some(e)
         /\ log' = FailedLine(TaskName(ti), e)
    /\ pc' = "loop"
    /\ UNCHANGED << Config, Env, History, ti, status, started, Locals, payload,
                    Outputs, tried >>

(* A 404 or a 401/403 answered by a POST with the next auth header mode *)
PostFailsNextCandidate ==
    /\ pc = "await"
    /\ \E e \in PostErrors :
         LET left == { sc \in AuthSchemes :
                        [ url |-> SEC_API_URL,
                          headers |-> headers(sc, SEC_API_KEY) ] \notin tried }
         IN  IF e \in { "404", "auth" } /\ left # { }
             THEN /\ exc' = Some(e)
                  /\ tried' = tried \cup
                        { [ url |-> SEC_API_URL,
                            headers |-> headers(CHOOSE sc \in left : TRUE,
                                                SEC_API_KEY) ] }
                  /\ log' = PostLine
                  /\ UNCHANGED << ti, status, started, Locals, payload, pc,
                                  total_items, rss_items, files >>
             ELSE /\ FetchFails(e)
                  /\ UNCHANGED tried
    /\ UNCHANGED << Config, Env, History, feed >>

(* _post_once lines 98-108 raising *)
PostFails ==
    /\ pc = "await"
    /\ \E e \in PostErrors : FetchFails(e)
    /\ UNCHANGED << Config, Env, History, feed, tried >>

(* _post_once lines 109-113 returning, then lines 311-334; the model holds *)
(* at most cap rows                                                       *)
HandlePage(answers, cap) ==
    /\ pc = "await"
    /\ \E a \in answers :
         LET r == post_once_returns(a)
         IN  IF extract_rows_raises(r)
             THEN FetchFails("TypeError")
             ELSE LET rows == extract_rows(r)
                      coll == DedupAppend(collected, rows)
                  IN  /\ total_items + Len(coll) <= cap
                      /\ IF EmptyPage(rows)
                         THEN /\ resp' = Some(r)
                              /\ pc' = "save"
                              /\ log' = << "Stranica", "0 rezultata" >>
                              /\ UNCHANGED << ti, status, started, exc, collected,
                                              page, frm, next_token, payload,
                                              nposts, total_items, rss_items,
                                              files >>
                         ELSE IF page_extract_next_raises(r)
                         THEN FetchFails("AttributeError")
                         ELSE LET nx == page_extract_next(r, frm, size)
                              IN  /\ resp' = Some(r)
                                  /\ collected' = coll
                                  /\ log' = << "Dodano", TaskName(ti) >>
                                  /\ page' = NextPageNo(page)
                                  /\ next_token' = nx.token
                                  /\ frm' = IF ~ Truthy(nx.token) /\ nx.has_more
                                            THEN nx.next_from ELSE frm
                                  /\ pc' = IF Truthy(nx.token) \/ nx.has_more
                                           THEN "loop" ELSE "save"
                                  /\ UNCHANGED << ti, status, started, exc,
                                                  payload, nposts, total_items,
                                                  rss_items, files >>
    /\ UNCHANGED << Config, Env, History, feed, tried >>

WriteOutcomes == { "ok", "json_fails", "csv_fails" }

(* run_query_to_files returns to main line 367 *)
TaskReturns ==
    /\ status' = [ status EXCEPT ![ti] = "ok" ]
    /\ exc' = None
    /\ ti' = ti + 1
    /\ pc' = "main"
    /\ ResetLocals
    /\ UNCHANGED << started, payload >>

(* lines 336-342 and, back in main, lines 367-379 *)
SaveTask ==
    /\ pc = "save"
    /\ IF collected = << >>
       THEN /\ TaskReturns
            /\ log' = << TaskName(ti), "nema rezultata" >>
            /\ UNCHANGED << total_items, rss_items, files >>
       ELSE \E w \in WriteOutcomes :
              CASE w = "json_fails" ->
                     /\ ExceptionCaught("OSError", "write_failed")
                     /\ UNCHANGED << total_items, rss_items, files >>
                [] w = "csv_fails" ->
                     /\ ExceptionCaught("OSError", "write_failed")
                     /\ files' = [ files EXCEPT ![ti].json = Some(collected) ]
                     /\ UNCHANGED << total_items, rss_items >>
                [] OTHER ->
                     /\ files' = [ files EXCEPT
                                     ![ti] = [ json |-> Some(collected),
                                               csv |-> Some(CsvRows(collected)) ] ]
                     /\ total_items' = total_items + Len(collected)
                     /\ rss_items' = rss_items
                                       \o RssItems(files'[ti].json[1], TaskName(ti))
                     /\ log' = << TaskName(ti), "zapisano" >>
                     /\ TaskReturns
    /\ UNCHANGED << Config, Env, History, feed, tried >>

FeedOutcomes == { "ok", "fails" }

(* The feed written also when there is no item *)
WriteRssAlways ==
    /\ pc = "main"
    /\ ti = NumTasks + 1
    /\ \E w \in FeedOutcomes :
         IF w = "ok"
         THEN /\ feed' = Some(rss_items)
              /\ log' = << "Done" >>
              /\ pc' = "done"
         ELSE /\ pc' = "crashed"
              /\ log' = << "Traceback", "OSError" >>
              /\ UNCHANGED feed
    /\ UNCHANGED << Config, Env, History, ti, status, started, exc, Locals, payload,
                    total_items, rss_items, files, tried >>

(* main lines 383-392 *)
WriteRss ==
    /\ pc = "main"
    /\ ti = NumTasks + 1
    /\ IF rss_items = << >>
       THEN /\ pc' = "done"
            /\ log' = << "Done" >>
            /\ UNCHANGED feed
       ELSE \E w \in FeedOutcomes :
              IF w = "ok"
              THEN /\ feed' = Some(rss_items)
                   /\ log' = << "Done" >>
                   /\ pc' = "done"
              ELSE /\ pc' = "crashed"
                   /\ log' = << "Traceback", "OSError" >>
                   /\ UNCHANGED feed
    /\ UNCHANGED << Config, Env, History, ti, status, started, exc, Locals, payload,
                    total_items, rss_items, files, tried >>

(* The key not checked *)
CheckConfigNoKeyCheck ==
    /\ pc = "config"
    /\ IF SEC_API_URL = ""
       THEN /\ pc' = "aborted"
            /\ log' = << "SEC_API_URL nije postavljen" >>
            /\ UNCHANGED SEC_API_URL
       ELSE IF AUTH_SCHEME \notin AuthSchemes
       THEN /\ pc' = "aborted"
            /\ log' = << "AUTH_SCHEME mora biti" >>
            /\ UNCHANGED SEC_API_URL
       ELSE /\ SEC_API_URL' = StripSlash(SEC_API_URL)
            /\ log' = UrlLine
            /\ pc' = "main"
    /\ UNCHANGED << SEC_API_KEY, AUTH_SCHEME, Config, History, ti, status, started,
                    exc, Locals, payload, Outputs, tried >>

(* Module lines 58-79: the checks of the configuration, sys.exit(1) when   *)
(* one fails, then the normalisation of the url and its masked print       *)
CheckConfig ==
    /\ pc = "config"
    /\ IF SEC_API_URL = ""
       THEN /\ pc' = "aborted"
            /\ log' = << "SEC_API_URL nije postavljen" >>
            /\ UNCHANGED SEC_API_URL
       ELSE IF SEC_API_KEY = ""
       THEN /\ pc' = "aborted"
            /\ log' = << "SEC_API_KEY nije postavljen" >>
            /\ UNCHANGED SEC_API_URL
       ELSE IF AUTH_SCHEME \notin AuthSchemes
       THEN /\ pc' = "aborted"
            /\ log' = << "AUTH_SCHEME mora biti" >>
            /\ UNCHANGED SEC_API_URL
       ELSE /\ SEC_API_URL' = StripSlash(SEC_API_URL)
            /\ log' = UrlLine
            /\ pc' = "main"
    /\ UNCHANGED << SEC_API_KEY, AUTH_SCHEME, Config, History, ti, status, started,
                    exc, Locals, payload, Outputs, tried >>

(* A whole run, the provider answering from BasicAnswers *)
Next ==
    \/ StartTask
    \/ SendRequest
    \/ LoopExit
    \/ PostFails
    \/ HandlePage(BasicAnswers, MaxStored)
    \/ SaveTask
    \/ WriteRss

Spec == Init /\ [][Next]_vars

(* The program is one thread that always takes its next step, and every   *)
(* POST returns or raises within its 60 s timeout.                        *)
FairSpec == Spec /\ WF_vars(Next)

(* The script from its start: lines 50-56 have read the environment       *)
RunInit ==
    /\ SEC_API_URL \in { getenv_strip(v, "") : v \in EnvUrls }
    /\ SEC_API_KEY \in { getenv_strip(v, "") : v \in EnvKeys }
    /\ AUTH_SCHEME \in { Lower(getenv_strip(v, "bearer")) : v \in EnvSchemes }
    /\ PAGE_LIMIT \in 1 .. MaxPageLimit
    /\ MAX_PER_QUERY \in 1 .. MaxPerQuery
    /\ pc = "config"
    /\ ti = 1
    /\ status = [ t \in Tasks |-> "pending" ]
    /\ started = << >>
    /\ exc = None
    /\ collected = << >>
    /\ page = 0
    /\ frm = 0
    /\ next_token = None
    /\ payload = None
    /\ resp = None
    /\ nposts = 0
    /\ total_items = 0
    /\ rss_items = << >>
    /\ files = NoFiles
    /\ feed = None
    /\ tried = { }
    /\ log = << >>
    /\ run = 1
    /\ emitted = { }

RunNext ==
    \/ CheckConfig
    \/ Next

RunSpec == RunInit /\ [][RunNext]_vars

(* The id of a feed item *)
ItemId(it) == << it.title, it.link >>

FeedIds(f) == IF f = None THEN { } ELSE { ItemId(f[1][i]) : i \in 1 .. Len(f[1]) }

(* The script is run again (lines 395-396) with the same environment,     *)
(* after a run that ended; readers have by then seen the feed that run    *)
(* wrote.                                                                 *)
NextRun ==
    /\ pc \in { "done", "crashed" }
    /\ run < MaxRuns
    /\ run' = run + 1
    /\ emitted' = emitted \cup FeedIds(feed)
    /\ pc' = "main"
    /\ ti' = 1
    /\ status' = [ t \in Tasks |-> "pending" ]
    /\ started' = << >>
    /\ exc' = None
    /\ payload' = None
    /\ ResetLocals
    /\ total_items' = 0
    /\ rss_items' = << >>
    /\ files' = NoFiles
    /\ feed' = None
    /\ tried' = { }
    /\ log' = UrlLine
    /\ UNCHANGED << Config, Env >>

(* What the provider answers in the runs of HistorySpec: a page of no,    *)
(* one or two filings                                                     *)
HistoryAnswers ==
    { JsonAnswer(b) : b \in { c \in BasicBodies :
                                 c.kind = "dict" /\ c.hits = "absent" } }
      \cup { JsonAnswer(Body("dict", "filings", << FilingA, FilingB >>, None, None,
                             None, "absent", None, FALSE)) }

HistoryInit ==
    /\ Init
    /\ PAGE_LIMIT = 1
    /\ MAX_PER_QUERY = 1

HistoryNext ==
    \/ StartTask
    \/ SendRequest
    \/ LoopExit
    \/ PostFails
    \/ HandlePage(HistoryAnswers, MaxStored)
    \/ SaveTask
    \/ WriteRss
    \/ NextRun

(* Runs of the script one after the other *)
HistorySpec == HistoryInit /\ [][HistoryNext]_vars

(* Long pages: n filings with the accession numbers 1 .. n               *)
BigRows(n) ==
    [ i \in 1 .. n |->
        [ accessionNo |-> i, filedAt |-> "d1", link |-> "l1",
          ticker |-> IF i % 2 = 1 THEN "T1" ELSE "T2", whole |-> FALSE ] ]

BigPageLengths == { 0, 1, RssPerCategory, MaxBigPage }

BigAnswers ==
    { JsonAnswer(Body("dict", "filings", BigRows(n), tok, None, None, "absent",
                      None, FALSE)) :
        n \in BigPageLengths, tok \in Opt({ "t1" }) }

(* The last two tasks of a run whose earlier tasks found nothing, the     *)
(* provider answering with pages of up to MaxBigPage filings              *)
FeedInit ==
    /\ ConfiguredInit
    /\ PAGE_LIMIT \in 1 .. MaxPageLimit
    /\ MAX_PER_QUERY \in { 1, MaxBigPerQuery }
    /\ pc = "main"
    /\ ti = NumTasks - 1
    /\ status = [ t \in Tasks |-> IF t < NumTasks - 1 THEN "ok" ELSE "pending" ]
    /\ started = [ i \in 1 .. NumTasks - 2 |-> i ]
    /\ exc = None
    /\ collected = << >>
    /\ page = 0
    /\ frm = 0
    /\ next_token = None
    /\ payload = None
    /\ resp = None
    /\ nposts = 0
    /\ total_items = 0
    /\ rss_items = << >>
    /\ files = NoFiles
    /\ feed = None

FeedNext ==
    \/ StartTask
    \/ SendRequest
    \/ LoopExit
    \/ PostFails
    \/ HandlePage(BigAnswers, 2 * MaxBigPage)
    \/ SaveTask
    \/ WriteRss

FeedSpec == FeedInit /\ [][FeedNext]_vars

(* The last task of a run whose earlier tasks found nothing, the provider *)
(* answering from AllAnswers                                              *)
PageInit ==
    /\ ConfiguredInit
    /\ PAGE_LIMIT \in -1 .. MaxPageLimit
    /\ MAX_PER_QUERY \in 0 .. MaxPerQuery
    /\ pc = "main"
    /\ ti = NumTasks
    /\ status = [ t \in Tasks |-> IF t < NumTasks THEN "ok" ELSE "pending" ]
    /\ started = [ i \in 1 .. NumTasks - 1 |-> i ]
    /\ exc = None
    /\ collected = << >>
    /\ page = 0
    /\ frm = 0
    /\ next_token = None
    /\ payload = None
    /\ resp = None
    /\ nposts = 0
    /\ total_items = 0
    /\ rss_items = << >>
    /\ files = NoFiles
    /\ feed = None

PageNext ==
    \/ StartTask
    \/ SendRequest
    \/ LoopExit
    \/ PostFails
    \/ HandlePage(AllAnswers, MaxStored)
    \/ SaveTask
    \/ WriteRss

PageSpec == PageInit /\ [][PageNext]_vars

TypeOK ==
    /\ pc \in { "config", "aborted", "main", "loop", "await", "save", "done", "crashed" }
    /\ ti \in 1 .. NumTasks + 1
    /\ page \in 0 .. MaxPageLimit
    /\ nposts \in 0 .. MaxPageLimit + 1
    /\ total_items \in Nat
    /\ run \in 1 .. MaxRuns

-----------------------------------------------------------------------------
(* Properties *)

Nonempty(o) == o # None

(* C1: with max_items >= 1 and PAGE_LIMIT >= 1, the records collected for  *)
(* a category, and the list saved for it, number at most max_items, after  *)
(* every page.                                                             *)
C1_AtMostMaxItems ==
    (MAX_PER_QUERY >= 1 /\ PAGE_LIMIT >= 1) =>
        /\ Len(collected) <= MAX_PER_QUERY
        /\ \A t \in Tasks :
             Nonempty(files[t].json) => Len(files[t].json[1]) <= MAX_PER_QUERY

(* C2: at most PAGE_LIMIT POSTs are issued for one category, and none when *)
(* PAGE_LIMIT <= 0, whatever the provider answers.                         *)
C2_AtMostPageLimitPosts == nposts <= Max(PAGE_LIMIT, 0)

(* The provider has put a token on every page, PAGE_LIMIT pages were       *)
(* requested, and the token of the last one is still pending.              *)
C2_Witness ==
    /\ PAGE_LIMIT >= 2
    /\ nposts = PAGE_LIMIT
    /\ pc = "loop"
    /\ Truthy(next_token)

(* C4: the records collected for a category have pairwise distinct keys    *)
(* (accessionNo, filedAt, link).                                           *)
C4_DistinctKeys ==
    \A i, j \in 1 .. Len(collected) :
        i # j => Key(collected[i]) # Key(collected[j])

Finished == { "ok", "failed", "write_failed" }

RunOver ==
    /\ pc \in { "done", "crashed" }
    /\ \A t \in Tasks : status[t] \in Finished

(* C3: the pagination loop of every category terminates and the run over   *)
(* the five categories reaches its end, whatever the provider answers: the *)
(* same token for ever, pages of already collected records only, a total   *)
(* always beyond the offset. (The end is "done", or "crashed" when the     *)
(* write of the feed raises, which no answer of the provider causes.)      *)
C3_Terminates == <>RunOver

(* Two pages were taken, both with a token, the second with nothing new:   *)
(* only the page cap ends the loop.                                        *)
C3_Witness ==
    /\ pc = "loop"
    /\ PAGE_LIMIT >= 2
    /\ page = PAGE_LIMIT
    /\ Truthy(next_token)
    /\ Len(collected) = 1
    /\ Len(collected) < MAX_PER_QUERY

(* What a response carries, as the provider states it *)
CarriedToken(r) == IF r.nextPageToken # None THEN r.nextPageToken ELSE r.next
ReportedTotal(r) == IF r.total # None THEN r.total ELSE r.hitsTotal

LastResponse == resp[1]
LastRequest == payload[1]

(* C5: after a non-empty page without a token that reports a total beyond  *)
(* from + size, with the page and item caps not reached, the next request  *)
(* is issued with from advanced by size; for a total at the top level and  *)
(* for one under hits.total.                                               *)
C5_OffsetCase ==
    /\ pc \in { "loop", "save" }
    /\ resp # None
    /\ LastResponse.rows # << >>
    /\ CarriedToken(LastResponse) = None
    /\ ReportedTotal(LastResponse) # None
    /\ ReportedTotal(LastResponse)[1] > LastRequest.from + LastRequest.size
    /\ page < PAGE_LIMIT
    /\ Len(collected) < MAX_PER_QUERY

C5_OffsetAdvances ==
    [][ C5_OffsetCase =>
          /\ pc' = "await"
          /\ payload'[1].from = LastRequest.from + LastRequest.size ]_vars

(* C6: when a page carries a token, the next request carries that token    *)
(* and the same from, also when the page reports a total, and that request *)
(* is issued when the page had rows and no cap is reached; a request       *)
(* carries a token only if the response before it supplied that token.     *)
C6_TokenCase == pc = "loop" /\ resp # None /\ CarriedToken(LastResponse) # None

C6_TokenPreferred ==
    [][ /\ (C6_TokenCase /\ pc' = "await") =>
             /\ payload'[1].nextPageToken = CarriedToken(LastResponse)
             /\ payload'[1].from = LastRequest.from
        /\ (C6_TokenCase /\ LastResponse.rows # << >> /\ LoopGuard) =>
             pc' = "await"
        /\ (pc = "loop" /\ pc' = "await" /\ payload'[1].nextPageToken # None) =>
             /\ resp # None
             /\ payload'[1].nextPageToken
                  \in { LastResponse.nextPageToken, LastResponse.next } ]_vars

(* A page gave the token under "next" together with a total beyond the     *)
(* offset; the token is kept for the next request and from has not moved.  *)
C6_Witness ==
    /\ C6_TokenCase
    /\ LoopGuard
    /\ LastResponse.nextPageToken = None
    /\ LastResponse.hits = "dict"
    /\ ReportedTotal(LastResponse) # None
    /\ ReportedTotal(LastResponse)[1] > LastRequest.from + LastRequest.size
    /\ next_token = LastResponse.next
    /\ frm = LastRequest.from

(* C7: a further request is issued only if the page before it yielded a    *)
(* record, signalled more (a token, or no token and a total beyond the     *)
(* next offset), fewer than PAGE_LIMIT requests were made and fewer than   *)
(* max_items records are collected; a page of zero records is followed by  *)
(* no request, and what was collected before it is kept and saved (unless  *)
(* the write itself raises).                                               *)
SignalledMore(r, q) ==
    \/ CarriedToken(r) # None
    \/ /\ ReportedTotal(r) # None
       /\ ReportedTotal(r)[1] > q.from + q.size

C7_FurtherRequestOnlyIf ==
    [][ /\ (pc = "loop" /\ pc' = "await" /\ nposts >= 1) =>
             /\ resp # None
             /\ extract_rows(LastResponse) # << >>
             /\ SignalledMore(LastResponse, LastRequest)
             /\ nposts < PAGE_LIMIT
             /\ Len(collected) < MAX_PER_QUERY
        /\ (pc = "await" /\ resp' # None /\ extract_rows(resp'[1]) = << >>) =>
             /\ pc' = "save"
             /\ collected' = collected
        /\ (pc = "save" /\ collected # << >>) =>
             \/ files'[ti].json = Some(collected)
             \/ status'[ti] = "write_failed" ]_vars

(* A page of zero records that carried a token ended the loop below both   *)
(* caps, with records of an earlier page collected.                        *)
C7_Witness ==
    /\ pc = "save"
    /\ resp # None
    /\ extract_rows(LastResponse) = << >>
    /\ CarriedToken(LastResponse) # None
    /\ collected # << >>
    /\ LoopGuard

InTask == pc \in { "loop", "await", "save" }

(* C8: the five categories are attempted once each, in the order of the    *)
(* task list, one run to its end or to its failure before the next begins; *)
(* a category that fails (network fault, 404, 401/403, other status, an    *)
(* exception while a page is handled) is followed by the next one, and the *)
(* run ends normally whatever categories failed (it ends otherwise only by *)
(* the feed write raising).                                                *)
C8_Order ==
    /\ started = [ i \in 1 .. Len(started) |-> i ]
    /\ \A t \in Tasks : status[t] = "pending" <=> t > Len(started)
    /\ \A t \in Tasks : status[t] = "running" => t = Len(started) /\ t = ti /\ InTask
    /\ InTask => ti \in Tasks /\ status[ti] = "running"
    /\ pc \in { "done", "crashed" } =>
         /\ Len(started) = NumTasks
         /\ \A t \in Tasks : status[t] \in Finished
    /\ pc = "crashed" => rss_items # << >> /\ feed = None

C8_FailureStep ==
    (ti \in Tasks /\ status[ti] = "running" /\ status'[ti] = "failed") =>
        /\ pc' = "main"
        /\ ti' = ti + 1
        /\ started' = started
        /\ \A t \in Tasks : t > ti => status'[t] = "pending"

C8_EveryCategoryAttempted == []C8_Order /\ [][C8_FailureStep]_vars

(* A run that ended normally with the first category failed, a later one   *)
(* failed too, and categories after them fetched and counted.              *)
C8_Witness ==
    /\ pc = "done"
    /\ status[1] = "failed"
    /\ status[2] = "ok"
    /\ status[3] = "failed"
    /\ status[NumTasks] = "ok"
    /\ Nonempty(files[NumTasks].json)
    /\ total_items > 0

RECURSIVE CountedUpTo(_)
CountedUpTo(n) ==
    IF n = 0 THEN 0
    ELSE CountedUpTo(n - 1)
           + (IF status[n] = "ok" /\ Nonempty(files[n].json)
              THEN Len(files[n].json[1]) ELSE 0)

(* C9: a category whose fetch fails adds nothing to total_items, no item   *)
(* to the feed and writes no JSON or CSV file, also when it fails on a     *)
(* later page after earlier pages returned records.                        *)
C9_Nothing ==
    /\ \A t \in Tasks :
         status[t] = "failed" =>
           /\ files[t] = [ json |-> None, csv |-> None ]
           /\ \A i \in 1 .. Len(rss_items) : rss_items[i].title[2] # TaskName(t)
    /\ total_items = CountedUpTo(NumTasks)

C9_FailureStep ==
    (ti \in Tasks /\ status[ti] = "running" /\ status'[ti] = "failed") =>
        /\ total_items' = total_items
        /\ rss_items' = rss_items
        /\ files' = files
        /\ feed' = feed

C9_FailedReportsNothing == []C9_Nothing /\ [][C9_FailureStep]_vars

(* The POST of a later page, sent with the token an earlier page of rows   *)
(* had given, has failed: the category is failed and left no file.         *)
C9_Witness ==
    /\ pc = "main"
    /\ ti > 1
    /\ status[ti - 1] = "failed"
    /\ exc \in { Some(e) : e \in PostErrors }
    /\ payload # None
    /\ LastRequest.nextPageToken # None
    /\ files[ti - 1].json = None

(* A JSON body that is neither a list nor an object with a list under one  *)
(* of the keys of line 192 (or under hits.hits)                            *)
Unlisted(r) ==
    \/ r.kind \in { "str", "num" }
    \/ r.kind = "dict" /\ r.listKey = "none" /\ ~r.raw

(* C10: a 2xx JSON body of none of the listed shapes counts as zero        *)
(* records for its page: it adds no record to the collected list, and its  *)
(* handling does not raise.                                                *)
C10_UnlistedShapeIsZeroRecords ==
    [][ /\ (pc = "await" /\ resp' # None /\ Unlisted(resp'[1])) =>
             collected' = collected
        /\ pc = "await" => exc' # Some("TypeError") ]_vars

(* The response shapes the reader is to accept *)
AcceptedShape(r) ==
    \/ r.kind = "list"
    \/ r.kind = "dict" /\ r.listKey \in { "filings", "data", "results", "hits.hits" }

(* C11: for every accepted shape (a top-level list; an object with a list  *)
(* under filings, data or results; an object with hits.hits), the records  *)
(* taken from a page are the filing objects of its list, in order (those   *)
(* whose key was collected before the page left out), the page is handled  *)
(* without an exception, and what was collected is saved.                  *)
C11_AcceptedShapesRead ==
    [][ /\ (pc = "await" /\ resp' # None /\ AcceptedShape(resp'[1])
              /\ resp'[1].rows # << >>) =>
             collected' = DedupAppend(collected, resp'[1].rows)
        /\ pc = "await" => exc' # Some("AttributeError") ]_vars

(* C12: a failure of the write of an export is fatal for the run: after it *)
(* no later category is started and the run does not reach its normal end. *)
C12_ExportWriteFailureIsFatal ==
    \A t \in Tasks :
        status[t] = "write_failed" => Len(started) <= t /\ pc # "done"

(* What the spec calls the candidates: the configured endpoint with each   *)
(* of the auth header modes of _headers                                    *)
Candidates ==
    { [ url |-> SEC_API_URL, headers |-> headers(sc, SEC_API_KEY) ] :
        sc \in AuthSchemes }

Refused == { Some("404"), Some("auth") }

(* C13 as stated: on a 404 or a 401/403 the client goes on to the next     *)
(* candidate and issues the request again; the category fails only after   *)
(* every candidate has been tried.                                         *)
C13_NextCandidateTried ==
    [][ (pc = "await" /\ exc' \in Refused /\ status'[ti] = "failed") =>
          Candidates \subseteq tried ]_vars

(* C13 as amended: on a 404 or a 401/403 the client goes on to no other    *)
(* candidate: the category fails at once, its requests having all gone to  *)
(* the one configured endpoint with the one configured auth scheme.        *)
C13_NoOtherCandidate ==
    [][ (pc = "await" /\ exc' \in Refused) =>
          /\ status'[ti] = "failed"
          /\ pc' = "main"
          /\ tried' = { Target } ]_vars

(* A category has failed on a 401/403 under the raw scheme *)
C13_Witness ==
    /\ pc = "main"
    /\ ti > 1
    /\ status[ti - 1] = "failed"
    /\ exc = Some("auth")
    /\ AUTH_SCHEME = "raw"
    /\ tried = { Target }

(* C14: every request goes to the one endpoint SEC_API_URL with the one    *)
(* auth scheme AUTH_SCHEME, fixed for the run; after a request of a        *)
(* category ends in 404, 401/403, another status or a network fault, that  *)
(* category is failed and gets no further request (no retry, no later      *)
(* page).                                                                  *)
RequestFailed == pc = "await" /\ exc' \in { Some(e) : e \in PostErrors }

C14_OneTarget ==
    /\ tried \subseteq { Target }
    /\ started = [ i \in 1 .. Len(started) |-> i ]

C14_Step ==
    /\ pc # "config" => Env' = Env
    /\ RequestFailed =>
         /\ status'[ti] = "failed"
         /\ pc' = "main"
         /\ ti' = ti + 1
         /\ tried' = tried
    /\ pc' = "await" => ti' \in Tasks /\ status'[ti'] = "running"
    /\ \A t \in Tasks : status[t] = "failed" => status'[t] = "failed"

C14_OneTargetFailFast == []C14_OneTarget /\ [][C14_Step]_vars

(* Under the x-api-key scheme a later page was refused with a status other *)
(* than 404, 401 and 403, and the run has gone on to the next category.    *)
C14_Witness ==
    /\ pc = "loop"
    /\ ti > 1
    /\ status[ti - 1] = "failed"
    /\ exc = None
    /\ AUTH_SCHEME = "x-api-key"
    /\ log = FailedLine(TaskName(ti - 1), "http")

ConfigMissing ==
    \/ SEC_API_URL = ""
    \/ SEC_API_KEY = ""
    \/ AUTH_SCHEME \notin AuthSchemes

NothingDone ==
    /\ started = << >>
    /\ tried = { }
    /\ payload = None
    /\ nposts = 0
    /\ total_items = 0
    /\ files = NoFiles
    /\ feed = None

(* C17: when the base URL or the credential is missing, or the auth scheme *)
(* is none of bearer, x-api-key and raw, the run aborts before any request *)
(* is issued: no category is processed and no export or feed is written.   *)
C17_Aborted ==
    /\ ConfigMissing => pc \in { "config", "aborted" } /\ NothingDone
    /\ pc = "aborted" => ConfigMissing

C17_Step ==
    /\ (pc = "config" /\ ConfigMissing) => pc' = "aborted"
    /\ pc = "aborted" => pc' = "aborted"

C17_MissingConfigAborts == []C17_Aborted /\ [][C17_Step]_vars

(* The run has aborted on a missing key, the url and the scheme being set  *)
C17_Witness ==
    /\ pc = "aborted"
    /\ SEC_API_URL # ""
    /\ SEC_API_KEY = ""
    /\ AUTH_SCHEME \in AuthSchemes
    /\ NothingDone

(* A line with its secret parts masked *)
Redacted(line) ==
    [ i \in 1 .. Len(line) |->
        IF line[i] \in { SEC_API_URL, SEC_API_KEY } THEN "***" ELSE line[i] ]

(* C18: no credential value appears in the log and the endpoint appears    *)
(* there only masked, so that two runs which differ only in these and get  *)
(* the same responses print the same lines: every line printed, the        *)
(* per-request line and the error line of a failed category included, is   *)
(* the line with its secret parts masked.                                  *)
C18_LogHidesSecrets == log = Redacted(log)

(* The category ended with records collected and its files written *)
Produced(t) == status[t] = "ok" /\ Nonempty(files[t].json)

(* C15: nothing is written when there is nothing to report. The JSON and   *)
(* CSV files of a category are written if and only if a record was         *)
(* collected for it and its fetch did not fail, and the feed is written if *)
(* and only if some category produced a record ("written" but for a write  *)
(* that itself raises).                                                    *)
C15_Written ==
    /\ \A t \in Tasks :
         /\ Nonempty(files[t].json) =>
              /\ files[t].json[1] # << >>
              /\ status[t] \in { "ok", "write_failed" }
         /\ Nonempty(files[t].csv) =>
              /\ Produced(t)
              /\ Len(files[t].csv[1]) = Len(files[t].json[1])
         /\ status[t] = "ok" => (Nonempty(files[t].json) <=> Nonempty(files[t].csv))
    /\ Nonempty(feed) => feed[1] # << >> /\ \E t \in Tasks : Produced(t)
    /\ pc = "done" => (Nonempty(feed) <=> \E t \in Tasks : Produced(t))

C15_Step ==
    /\ (pc = "save" /\ collected = << >>) =>
         /\ files' = files
         /\ status'[ti] = "ok"
    /\ (pc = "save" /\ collected # << >>) =>
         \/ /\ files'[ti] = [ json |-> Some(collected),
                              csv |-> Some(CsvRows(collected)) ]
            /\ status'[ti] = "ok"
         \/ status'[ti] = "write_failed"
    /\ (ti \in Tasks /\ status'[ti] = "failed") => files'[ti] = NoFiles[ti]

C15_WrittenIffRecords == []C15_Written /\ [][C15_Step]_vars

(* A run has ended with the feed written, one category having produced     *)
(* records and another, fetched without failure, none and no file.         *)
C15_Witness ==
    /\ pc = "done"
    /\ Nonempty(feed)
    /\ \E t \in Tasks : Produced(t)
    /\ \E t \in Tasks : status[t] = "ok" /\ files[t] = NoFiles[t]
    /\ \E t \in Tasks : status[t] = "failed"

(* C16: across runs, an item an earlier run emitted (its id, from title    *)
(* and link, is in the history of emitted ids) is not emitted as new       *)
(* again: what a later run puts in its feed are only items no earlier run  *)
(* emitted.                                                                *)
C16_NoItemEmittedTwice ==
    (run > 1 /\ Nonempty(feed)) => FeedIds(feed) \cap emitted = { }

ItemsOf(t) == SelectSeq(rss_items, LAMBDA it : it.title[2] = TaskName(t))

TaskOf(it) == CHOOSE t \in Tasks : TaskName(t) = it.title[2]

(* C19: each category puts at most 30 items in the feed, one per record    *)
(* for its first min(30, count) records in collected order, and the feed   *)
(* lists the categories in task order, whatever max_items is and the       *)
(* provider returns.                                                       *)
C19_FeedCappedPerCategory ==
    /\ \A t \in Tasks :
         LET mine == ItemsOf(t)
         IN  /\ Len(mine) <= 30
             /\ IF Produced(t)
                THEN LET rows == files[t].json[1]
                     IN  /\ Len(mine) = Min(30, Len(rows))
                         /\ \A i \in 1 .. Len(mine) :
                              mine[i] = RssItem(rows[i], TaskName(t))
                ELSE mine = << >>
    /\ \A i, j \in 1 .. Len(rss_items) :
         i < j => TaskOf(rss_items[i]) <= TaskOf(rss_items[j])
    /\ Nonempty(feed) => feed[1] = rss_items

(* The feed was written with 30 items of a category that saved more than   *)
(* 30 records, followed by the items of the next category.                 *)
C19_Witness ==
    /\ pc = "done"
    /\ Nonempty(feed)
    /\ Produced(NumTasks - 1)
    /\ Len(files[NumTasks - 1].json[1]) > 30
    /\ Len(ItemsOf(NumTasks - 1)) = 30
    /\ Produced(NumTasks)
    /\ Len(feed[1]) > 30

=============================================================================
